---- MODULE Spec2Model ----
(***************************************************************************)
(* A model of argh::parser<CharType> (src/argh2.h): the registry of        *)
(* pre-declared parameter names, the classification loop of parse() and    *)
(* the flag accessors.                                                     *)
(*                                                                         *)
(* A string is a sequence of one-character strings, so that the string     *)
(* helpers (trim_leading_dashes, is_number, is_option) are computed        *)
(* character by character as the code computes them.  Positions are        *)
(* 0-based as in the code; npos is -1.                                     *)
(***************************************************************************)
EXTENDS Integers, Sequences, FiniteSets, Bags, TLC

VARIABLES
    registeredParams_,  \* std::set<Tstring>
    args_,              \* std::vector<Tstring>, kept between calls
    params_,            \* std::map<Tstring, Tstring>
    pos_args_,          \* std::vector<Tstring>
    flags_,             \* std::multiset<Tstring>, a bag of names
    pc,                 \* "idle" | "loop" | "done" | "aborted"
    mode,               \* the mode argument of the running parse()
    i,                  \* the loop index of the running parse()
    calls,              \* number of parse() calls started so far
    nParamTok,          \* history: tokens classified as a parameter name by the running call
    nValueTok           \* history: tokens consumed as a parameter value by the running call

vars == <<registeredParams_, args_, params_, pos_args_, flags_, pc, mode, i,
          calls, nParamTok, nValueTok>>

----------------------------------------------------------------------------
(* Bounds of the model *)

\* longest token vector handed to parse() in Spec
MaxArgs == 2

\* number of parse() calls on one parser in SpecAcc
MaxCalls == 2

----------------------------------------------------------------------------
(* enum Mode *)

PREFER_FLAG_FOR_UNREG_OPTION == 1
PREFER_PARAM_FOR_UNREG_OPTION == 2
NO_SPLIT_ON_EQUALSIGN == 4
SINGLE_DASH_IS_MULTIFLAG == 8

\* mode & bit
HasBit(m, bit) == (m \div bit) % 2 = 1

Modes == 0..15

----------------------------------------------------------------------------
(* String helpers *)

npos == -1

\* std::basic_string::find_first_not_of(ch): 0-based position, or npos
find_first_not_of(s, ch) ==
    LET hits == {k \in 1..Len(s) : s[k] # ch}
    IN  IF hits = {} THEN npos
        ELSE (CHOOSE k \in hits : \A j \in hits : k <= j) - 1

\* std::basic_string::find(ch): 0-based position, or npos
find(s, ch) ==
    LET hits == {k \in 1..Len(s) : s[k] = ch}
    IN  IF hits = {} THEN npos
        ELSE (CHOOSE k \in hits : \A j \in hits : k <= j) - 1

\* std::basic_string::substr(pos)
substr(s, pos) == SubSeq(s, pos + 1, Len(s))

\* std::basic_string::substr(0, n)
prefix(s, n) == SubSeq(s, 1, n)

trim_leading_dashes(name) ==
    LET p1  == find_first_not_of(name, "-")
        pos == IF p1 = 0 \/ p1 = npos THEN find_first_not_of(name, "/") ELSE p1
    IN  IF pos # npos THEN substr(name, pos) ELSE name

Digits == {"0", "1", "2", "3", "4", "5", "6", "7", "8", "9"}

\* number of leading characters of s that lie in the set cs
Span(s, cs) ==
    LET stop == {k \in 1..Len(s) : s[k] \notin cs}
    IN  IF stop = {} THEN Len(s)
        ELSE (CHOOSE k \in stop : \A l \in stop : k <= l) - 1

\* the rest of s after an optional sign
SkipSign(s) == IF s # <<>> /\ Head(s) \in {"+", "-"} THEN Tail(s) ELSE s

\* the characters std::isspace accepts in the "C" locale
WhiteSpace == {" ", "\t", "\n", "", "\f", "\r"}

\* the value of a decimal digit
DigitValue(c) == CHOOSE d \in 0..9 : <<"0", "1", "2", "3", "4", "5", "6", "7", "8", "9">>[d + 1] = c

\* the sequence of digits ds without its leading zeros
StripZeros(ds) == substr(ds, Span(ds, {"0"}))

\* the decimal digits of the natural number n, none for zero
RECURSIVE NatDigits(_)
NatDigits(n) ==
    IF n = 0 THEN <<>>
    ELSE Append(NatDigits(n \div 10),
                <<"0", "1", "2", "3", "4", "5", "6", "7", "8", "9">>[(n % 10) + 1])

\* the order of two numbers given by their digits without leading zeros:
\* 1 when a is the larger, -1 when b is, 0 when they are equal
CmpDigits(a, b) ==
    IF Len(a) # Len(b) THEN (IF Len(a) > Len(b) THEN 1 ELSE -1)
    ELSE LET diff == {k \in 1..Len(a) : a[k] # b[k]}
         IN  IF diff = {} THEN 0
             ELSE LET k == CHOOSE j \in diff : \A l \in diff : j <= l
                  IN  IF DigitValue(a[k]) > DigitValue(b[k]) THEN 1 ELSE -1

\* the order of the exponent, written with the digits ds and negative when
\* neg, and the integer n: the exponent is compared digit by digit and has
\* no bound
CmpExp(neg, ds, n) ==
    IF neg
    THEN IF n > 0 THEN -1 ELSE 0 - CmpDigits(StripZeros(ds), NatDigits(0 - n))
    ELSE IF n < 0 THEN 1 ELSE CmpDigits(StripZeros(ds), NatDigits(n))

(* The decimal digits of 2^1024 - 2^970, half-way between the largest double *)
(* and 2^1024: strtod rounds to nearest, ties to even, so a magnitude        *)
(* converts to HUGE_VAL exactly when it is this number or more.              *)
DblOverflowDigits ==
    <<"1", "7", "9", "7", "6", "9", "3", "1", "3", "4", "8", "6", "2", "3", "1",
       "5", "8", "0", "7", "9", "3", "7", "2", "8", "9", "7", "1", "4", "0", "5",
       "3", "0", "3", "4", "1", "5", "0", "7", "9", "9", "3", "4", "1", "3", "2",
       "7", "1", "0", "0", "3", "7", "8", "2", "6", "9", "3", "6", "1", "7", "3",
       "7", "7", "8", "9", "8", "0", "4", "4", "4", "9", "6", "8", "2", "9", "2",
       "7", "6", "4", "7", "5", "0", "9", "4", "6", "6", "4", "9", "0", "1", "7",
       "9", "7", "7", "5", "8", "7", "2", "0", "7", "0", "9", "6", "3", "3", "0",
       "2", "8", "6", "4", "1", "6", "6", "9", "2", "8", "8", "7", "9", "1", "0",
       "9", "4", "6", "5", "5", "5", "5", "4", "7", "8", "5", "1", "9", "4", "0",
       "4", "0", "2", "6", "3", "0", "6", "5", "7", "4", "8", "8", "6", "7", "1",
       "5", "0", "5", "8", "2", "0", "6", "8", "1", "9", "0", "8", "9", "0", "2",
       "0", "0", "0", "7", "0", "8", "3", "8", "3", "6", "7", "6", "2", "7", "3",
       "8", "5", "4", "8", "4", "5", "8", "1", "7", "7", "1", "1", "5", "3", "1",
       "7", "6", "4", "4", "7", "5", "7", "3", "0", "2", "7", "0", "0", "6", "9",
       "8", "5", "5", "5", "7", "1", "3", "6", "6", "9", "5", "9", "6", "2", "2",
       "8", "4", "2", "9", "1", "4", "8", "1", "9", "8", "6", "0", "8", "3", "4",
       "9", "3", "6", "4", "7", "5", "2", "9", "2", "7", "1", "9", "0", "7", "4",
       "1", "6", "8", "4", "4", "4", "3", "6", "5", "5", "1", "0", "7", "0", "4",
       "3", "4", "2", "7", "1", "1", "5", "5", "9", "6", "9", "9", "5", "0", "8",
       "0", "9", "3", "0", "4", "2", "8", "8", "0", "1", "7", "7", "9", "0", "4",
       "1", "7", "4", "4", "9", "7", "7", "9", "2" >>

\* the k-th digit of the significant digits sig, zero past their end
DigitAt(sig, k) == IF k <= Len(sig) THEN DigitValue(sig[k]) ELSE 0

\* sig, read as a number of Len(DblOverflowDigits) integer digits followed by
\* a fraction, is at least the number DblOverflowDigits
ReachesOverflow(sig) ==
    LET diff == {k \in 1..Len(DblOverflowDigits) :
                    DigitAt(sig, k) # DigitValue(DblOverflowDigits[k])}
    IN  IF diff = {} THEN TRUE
        ELSE LET k == CHOOSE j \in diff : \A l \in diff : j <= l
             IN  DigitAt(sig, k) > DigitValue(DblOverflowDigits[k])

(* The magnitude  mant * 10^(e - nFrac)  is out of the range of a double,    *)
(* where mant are the mantissa digits, the last nFrac of them after the      *)
(* point, and e is the exponent written with the digits exp, negative when   *)
(* neg: it has more integer digits than DblOverflowDigits, or as many and    *)
(* is not smaller.  strtod returns HUGE_VAL and num_get sets failbit.        *)
Overflows(mant, nFrac, neg, exp) ==
    LET sig == StripZeros(mant)
        \* Len(sig) + e - nFrac against Len(DblOverflowDigits)
        c   == CmpExp(neg, exp, Len(DblOverflowDigits) + nFrac - Len(sig))
    IN  /\ sig # <<>>
        /\ \/ c = 1
           \/ /\ c = 0
              /\ ReachesOverflow(sig)

(* is_number: `istr >> number` on a double.  The stream skips white space,  *)
(* num_get collects  [sign] digits [. digits] [e [sign] digits]  greedily   *)
(* and stops at the first character that does not fit; the collected text   *)
(* must then convert as a whole: at least one mantissa digit and, once an   *)
(* 'e' was collected, at least one exponent digit; and the value must be in *)
(* the range of a double (a value too small converts to zero and is a       *)
(* number).  What follows the collected text does not matter.               *)
is_number(arg) ==
    LET s0    == substr(arg, Span(arg, WhiteSpace))
        s1    == SkipSign(s0)
        nInt  == Span(s1, Digits)
        s2    == substr(s1, nInt)
        dot   == s2 # <<>> /\ Head(s2) = "."
        s3    == IF dot THEN Tail(s2) ELSE s2
        nFrac == IF dot THEN Span(s3, Digits) ELSE 0
        s4    == substr(s3, nFrac)
        mant  == nInt + nFrac > 0
        sci   == mant /\ s4 # <<>> /\ Head(s4) \in {"e", "E"}
        neg   == sci /\ Len(s4) > 1 /\ s4[2] = "-"
        s5    == IF sci THEN SkipSign(Tail(s4)) ELSE s4
        nExp  == IF sci THEN Span(s5, Digits) ELSE 0
    IN  /\ mant
        /\ sci => nExp > 0
        /\ ~Overflows(prefix(s1, nInt) \o prefix(s3, nFrac), nFrac, neg,
                      prefix(s5, nExp))

\* is_option without the number test: every dashed token is an option
is_option_dash_only(arg) == arg[1] = "-" \/ arg[1] = "/"

is_option(arg) ==
    IF is_number(arg) THEN FALSE
    ELSE arg[1] = "-" \/ arg[1] = "/"

is_param(name) == name \in registeredParams_

got_flag(name) == BagIn(trim_leading_dashes(name), flags_)

\* bool operator[](Tstring const& name)
FlagLookup(name) == got_flag(name)

\* bool operator[](std::initializer_list<...>)
FlagLookupAny(names) == \E k \in 1..Len(names) : got_flag(names[k])

----------------------------------------------------------------------------
(* Containers *)

\* an insert that overwrites, as params_[k] = v would
map_insert_overwrite(m, k, v) ==
    [n \in DOMAIN m \cup {k} |-> IF n = k THEN v ELSE m[n]]

\* std::map::insert: a no-op when the key is already present
map_insert(m, k, v) ==
    IF k \in DOMAIN m THEN m
    ELSE [n \in DOMAIN m \cup {k} |-> IF n = k THEN v ELSE m[n]]

\* an emplace into a std::set: a name already there is not counted again
set_emplace(b, n) == IF BagIn(n, b) THEN b ELSE b (+) SetToBag({n})

\* std::multiset::emplace
multiset_emplace(b, n) == b (+) SetToBag({n})

\* for (auto const& c : name) flags_.emplace(Tstring{ c });
RECURSIVE emplace_chars(_, _)
emplace_chars(b, name) ==
    IF name = <<>> THEN b
    ELSE emplace_chars(multiset_emplace(b, <<Head(name)>>), Tail(name))

EmptyMap == [n \in {} |-> <<>>]

----------------------------------------------------------------------------
(* Inputs *)

\* the tokens a command line is drawn from (none is empty: is_option asserts
\* that of every token it is given)
Tok5     == <<"5">>
TokNeg3  == <<"-", "3">>
TokX     == <<"-", "-", "x">>
TokBX    == <<"-", "b", "x">>
TokXeq1  == <<"-", "x", "=", "1">>
TokSlash == <<"/", "x">>
TokMixed == <<"-", "/", "x">>
\* a literal within the range of a double, and one beyond it, on which
\* is_number fails
TokBig   == <<"-", "1", "e", "3", "0", "8">>
TokHuge  == <<"-", "1", "e", "4", "0", "0">>

Tokens ==
    {Tok5, TokNeg3, TokX, TokBX, TokXeq1, TokSlash, TokMixed, TokBig, TokHuge}

\* all token vectors of at most n tokens
ArgVectors(n) == UNION {[1..k -> Tokens] : k \in 0..n}

AllArgVectors == ArgVectors(MaxArgs)

\* the names handed to add_param()
RegInputs == {<<"-", "-", "x">>, <<"-", "b", "x">>}

\* the command lines parsed again and again in SpecAcc
ReparseVectors ==
    { <<TokX, Tok5, TokX, TokNeg3>>, <<TokXeq1>>, <<TokBX, TokNeg3>>,
      <<Tok5, TokX>> }

----------------------------------------------------------------------------
(* The state machine *)

Init ==
    /\ registeredParams_ = {}
    /\ args_ = <<>>
    /\ params_ = EmptyMap
    /\ pos_args_ = <<>>
    /\ flags_ = EmptyBag
    /\ pc = "idle"
    /\ mode = 0
    /\ i = 0
    /\ calls = 0
    /\ nParamTok = 0
    /\ nValueTok = 0

\* void add_param(Tstring const& name)
add_param(name) ==
    /\ pc = "idle"
    /\ registeredParams_' = registeredParams_ \cup {trim_leading_dashes(name)}
    /\ UNCHANGED <<args_, params_, pos_args_, flags_, pc, mode, i, calls,
                   nParamTok, nValueTok>>

AddParam == \E name \in RegInputs : add_param(name)

\* a parse() that clears the containers before the loop
parse_clearing(argv, m) ==
    /\ pc = "idle"
    /\ args_' = argv
    /\ mode' = m
    /\ i' = 0
    /\ pc' = "loop"
    /\ calls' = calls + 1
    /\ nParamTok' = 0
    /\ nValueTok' = 0
    /\ params_' = EmptyMap
    /\ pos_args_' = <<>>
    /\ flags_' = EmptyBag
    /\ UNCHANGED registeredParams_

\* parse(argc, argv, mode) up to the loop: args_ becomes a copy of argv
parse(argv, m) ==
    /\ pc = "idle"
    /\ args_' = argv
    /\ mode' = m
    /\ i' = 0
    /\ pc' = "loop"
    /\ calls' = calls + 1
    /\ nParamTok' = 0
    /\ nValueTok' = 0
    /\ UNCHANGED <<registeredParams_, params_, pos_args_, flags_>>

(* One iteration of the loop, on args_[i] (args_[i + 1] here). *)

arg == args_[i + 1]

InLoop == pc = "loop" /\ i < Len(args_)

\* auto name = trim_leading_dashes(args_[i]);
name0 == trim_leading_dashes(arg)

\* the name=value split applies to this token
EqualsSplit ==
    /\ ~HasBit(mode, NO_SPLIT_ON_EQUALSIGN)
    /\ find(name0, "=") # npos

\* the multi-flag branch is entered for this token
MultiFlag ==
    /\ 1 = Len(arg) - Len(name0)
    /\ HasBit(mode, SINGLE_DASH_IS_MULTIFLAG)
    /\ ~is_param(name0)

\* a multi-flag branch that never holds the last character back
keep_param_none == <<>>

\* keep_param: the registered last character, or empty
keep_param ==
    IF name0 # <<>> /\ is_param(<<name0[Len(name0)]>>)
    THEN <<name0[Len(name0)]>> ELSE <<>>

\* the name carried into the lookahead, and the flags recorded before it
name == IF MultiFlag THEN keep_param ELSE name0

flagsBeforeLookahead ==
    IF MultiFlag THEN emplace_chars(flags_, prefix(name0, Len(name0) - 1))
    ELSE flags_

\* the token gets to the lookahead
ReachesLookahead ==
    /\ InLoop
    /\ is_option(arg)
    /\ ~EqualsSplit
    /\ MultiFlag => keep_param # <<>>

\* a lookahead that only tests for the last token
NoValueFollows_last_only == i = Len(args_) - 1

\* i == args_.size() - 1 || is_option(args_[i + 1])
NoValueFollows ==
    IF i = Len(args_) - 1 THEN TRUE ELSE is_option(args_[i + 2])

\* the assert on the mode bits fails
ModeConflict ==
    /\ HasBit(mode, PREFER_FLAG_FOR_UNREG_OPTION)
    /\ HasBit(mode, PREFER_PARAM_FOR_UNREG_OPTION)

\* preferParam read from the wrong bit
preferParam_wrong_bit == HasBit(mode, PREFER_FLAG_FOR_UNREG_OPTION)

preferParam == HasBit(mode, PREFER_PARAM_FOR_UNREG_OPTION)

\* if (!is_option(args_[i])) { pos_args_.emplace_back(args_[i]); continue; }
IterPositional ==
    /\ InLoop
    /\ ~is_option(arg)
    /\ pos_args_' = Append(pos_args_, arg)
    /\ i' = i + 1
    /\ UNCHANGED <<registeredParams_, args_, params_, flags_, pc, mode, calls,
                   nParamTok, nValueTok>>

\* params_.insert({ name.substr(0, equalPos), name.substr(equalPos + 1) });
IterEqualsSplit ==
    /\ InLoop
    /\ is_option(arg)
    /\ EqualsSplit
    /\ LET equalPos == find(name0, "=")
       IN  params_' = map_insert(params_, prefix(name0, equalPos),
                                 substr(name0, equalPos + 1))
    /\ i' = i + 1
    /\ nParamTok' = nParamTok + 1
    /\ UNCHANGED <<registeredParams_, args_, pos_args_, flags_, pc, mode, calls,
                   nValueTok>>

\* the multi-flag branch with nothing kept: every character is a flag
IterMultiFlag ==
    /\ InLoop
    /\ is_option(arg)
    /\ ~EqualsSplit
    /\ MultiFlag
    /\ keep_param = <<>>
    /\ flags_' = emplace_chars(flags_, name0)
    /\ i' = i + 1
    /\ UNCHANGED <<registeredParams_, args_, params_, pos_args_, pc, mode, calls,
                   nParamTok, nValueTok>>

\* last token, or an option follows: a flag
IterFlagNoValue ==
    /\ ReachesLookahead
    /\ NoValueFollows
    /\ flags_' = multiset_emplace(flagsBeforeLookahead, name)
    /\ i' = i + 1
    /\ UNCHANGED <<registeredParams_, args_, params_, pos_args_, pc, mode, calls,
                   nParamTok, nValueTok>>

\* assert(!(mode & PREFER_FLAG_FOR_UNREG_OPTION) || !(mode & PREFER_PARAM_FOR_UNREG_OPTION))
\* fails: the program is aborted (the assertions are compiled in)
IterAssertFails ==
    /\ ReachesLookahead
    /\ ~NoValueFollows
    /\ ModeConflict
    /\ flags_' = flagsBeforeLookahead
    /\ pc' = "aborted"
    /\ UNCHANGED <<registeredParams_, args_, params_, pos_args_, mode, i, calls,
                   nParamTok, nValueTok>>

\* params_.insert({ name, args_[i + 1] }); ++i;
IterParam ==
    /\ ReachesLookahead
    /\ ~NoValueFollows
    /\ ~ModeConflict
    /\ (is_param(name) \/ preferParam)
    /\ params_' = map_insert(params_, name, args_[i + 2])
    /\ flags_' = flagsBeforeLookahead
    /\ i' = i + 2
    /\ nParamTok' = nParamTok + 1
    /\ nValueTok' = nValueTok + 1
    /\ UNCHANGED <<registeredParams_, args_, pos_args_, pc, mode, calls>>

\* else flags_.emplace(name);
IterFlagUnreg ==
    /\ ReachesLookahead
    /\ ~NoValueFollows
    /\ ~ModeConflict
    /\ ~(is_param(name) \/ preferParam)
    /\ flags_' = multiset_emplace(flagsBeforeLookahead, name)
    /\ i' = i + 1
    /\ UNCHANGED <<registeredParams_, args_, params_, pos_args_, pc, mode, calls,
                   nParamTok, nValueTok>>

ParseIter ==
    \/ IterPositional
    \/ IterEqualsSplit
    \/ IterMultiFlag
    \/ IterFlagNoValue
    \/ IterAssertFails
    \/ IterParam
    \/ IterFlagUnreg

\* the loop ends, parse() returns
ParseReturn(next) ==
    /\ pc = "loop"
    /\ ~(i < Len(args_))
    /\ pc' = next
    /\ UNCHANGED <<registeredParams_, args_, params_, pos_args_, flags_, mode, i,
                   calls, nParamTok, nValueTok>>

(* Spec: the registry is filled, then one command line is parsed. *)

\* the client calls parse() when no call is running
ParseCall ==
    /\ pc = "idle"
    /\ \E argv \in AllArgVectors, m \in Modes : parse(argv, m)

ParseDone == ParseReturn("done")

Next == AddParam \/ ParseCall \/ ParseIter \/ ParseDone

Spec == Init /\ [][Next]_vars

(* SpecAcc: parse() is called again on the same parser. *)

Reparse ==
    /\ calls < MaxCalls
    /\ \E argv \in ReparseVectors, m \in Modes : parse(argv, m)

ParseIdle == ParseReturn("idle")

NextAcc == AddParam \/ Reparse \/ ParseIter \/ ParseIdle

SpecAcc == Init /\ [][NextAcc]_vars

----------------------------------------------------------------------------
(* Vocabulary of the properties *)

ValidMode == ~ModeConflict

\* number of entries of the sequence s that satisfy Test
CountIn(s, Test(_)) == Cardinality({k \in 1..Len(s) : Test(s[k])})

\* a token that begins with '-' and reads as a number
NegNumber(t) == t # <<>> /\ t[1] = "-" /\ is_number(t)

\* the bag b with one more occurrence of every character of s
WithChars(b, s) ==
    b (+) [c \in {<<s[k]>> : k \in 1..Len(s)} |->
             Cardinality({k \in 1..Len(s) : s[k] = c[1]})]

\* m with k bound to v unless k is bound already
Bound(m, m2, k, v) ==
    /\ DOMAIN m2 = DOMAIN m \cup {k}
    /\ \A n \in DOMAIN m : m2[n] = m[n]
    /\ k \notin DOMAIN m => m2[k] = v

IsPrefix(s, t) == Len(s) <= Len(t) /\ SubSeq(t, 1, Len(s)) = s

NameX == <<"x">>

----------------------------------------------------------------------------
(* C1 *)

(* C1 as stated: after one parse() of a fresh parser under a valid mode, the *)
(* number of positionals plus flag occurrences plus parameters equals the    *)
(* number of tokens.                                                         *)
C1_TokenCountAsStated ==
    (pc = "done" /\ ValidMode) =>
        Len(pos_args_) + BagCardinality(flags_) + Cardinality(DOMAIN params_)
            = Len(args_)

(* C1, amended: without SINGLE_DASH_IS_MULTIFLAG, after one parse() of a     *)
(* fresh parser under a valid mode every token is exactly one of: a          *)
(* positional, one flag occurrence, a token classified as a parameter name   *)
(* (repeats included), or a token consumed as a parameter value.             *)
C1_TokenCount ==
    (pc = "done" /\ ValidMode /\ ~HasBit(mode, SINGLE_DASH_IS_MULTIFLAG)) =>
        Len(pos_args_) + BagCardinality(flags_) + nParamTok + nValueTok
            = Len(args_)

C1_Witness ==
    /\ pc = "done"
    /\ ValidMode
    /\ ~HasBit(mode, SINGLE_DASH_IS_MULTIFLAG)
    /\ Len(args_) = 2
    /\ nParamTok = 1
    /\ nValueTok = 1
    /\ Cardinality(DOMAIN params_) = 1

----------------------------------------------------------------------------
(* C2 *)

\* the value of the parameter occurrence classified by the step taken
OccurrenceValue ==
    IF i' = i + 2 THEN args_[i + 2]
    ELSE substr(name0, find(name0, "=") + 1)

(* C2: first occurrence wins.  No step changes or removes the value a name   *)
(* already has in params(), within one parse() and across parse() calls, and *)
(* a name that is new gets the value of the occurrence being classified.     *)
C2_FirstOccurrenceWins ==
    [][ /\ \A n \in DOMAIN params_ :
              n \in DOMAIN params_' /\ params_'[n] = params_[n]
        /\ \A n \in DOMAIN params_' \ DOMAIN params_ :
              params_'[n] = OccurrenceValue ]_vars

\* x got "1" from an earlier call; this call classified x as a parameter
\* twice more, with the values "5" and "-3"
C2_Witness ==
    /\ pc = "idle"
    /\ calls = 2
    /\ args_ = <<TokX, Tok5, TokX, TokNeg3>>
    /\ nParamTok = 2
    /\ NameX \in DOMAIN params_
    /\ params_[NameX] = <<"1">>

----------------------------------------------------------------------------
(* C3 *)

(* C3: a parse() under both PREFER_FLAG_FOR_UNREG_OPTION and                 *)
(* PREFER_PARAM_FOR_UNREG_OPTION fails before any token is classified: the   *)
(* loop never gets past its first token, parse() never returns from a        *)
(* vector that has a token, and no container is modified under it.           *)
C3_ConflictFailsFast ==
    (calls > 0 /\ ModeConflict) =>
        /\ Len(args_) > 0 => pc # "done"
        /\ i = 0
        /\ pos_args_ = <<>>
        /\ flags_ = EmptyBag
        /\ params_ = EmptyMap

----------------------------------------------------------------------------
(* C4 *)

(* C4: name stripping is idempotent: stripping the stripped name of the      *)
(* token being classified, or a stored name, changes nothing.                *)
C4_StripIdempotent ==
    /\ InLoop => trim_leading_dashes(trim_leading_dashes(arg))
                    = trim_leading_dashes(arg)
    /\ \A n \in registeredParams_ \cup BagToSet(flags_) \cup DOMAIN params_ :
          trim_leading_dashes(n) = n

----------------------------------------------------------------------------
(* C5 *)

(* C5 as stated: every token that begins with '-' and reads as a number is   *)
(* among the positional arguments once parse() has returned.                 *)
C5_NegNumberAsStated ==
    pc = "done" =>
        CountIn(args_, NegNumber) = CountIn(pos_args_, NegNumber)

(* C5, amended: a token that begins with '-' and reads as a number is never  *)
(* recorded as a flag or as a parameter name.  When the loop classifies it,  *)
(* it is appended to the positional arguments; the one other thing that can  *)
(* happen to it is to be consumed as the value of the parameter before it.   *)
C5_NegNumberPositional ==
    /\ [][ (InLoop /\ NegNumber(arg)) =>
              /\ pos_args_' = Append(pos_args_, arg)
              /\ flags_' = flags_
              /\ params_' = params_
              /\ nParamTok' = nParamTok
              /\ i' = i + 1 ]_vars
    /\ [](pc = "done" =>
            CountIn(args_, NegNumber)
                <= CountIn(pos_args_, NegNumber) + nValueTok)

\* "-3" was consumed as the value of the registered --x
C5_Witness ==
    /\ pc = "done"
    /\ args_ = <<TokX, TokNeg3>>
    /\ pos_args_ = <<>>
    /\ flags_ = EmptyBag
    /\ NameX \in DOMAIN params_
    /\ params_[NameX] = TokNeg3

----------------------------------------------------------------------------
(* C6 *)

\* the token being classified is an unregistered option without '=' under
\* PREFER_PARAM_FOR_UNREG_OPTION alone, and a non-option token follows it
UnregOptionBeforeValue ==
    /\ InLoop
    /\ HasBit(mode, PREFER_PARAM_FOR_UNREG_OPTION)
    /\ ~HasBit(mode, PREFER_FLAG_FOR_UNREG_OPTION)
    /\ is_option(arg)
    /\ find(trim_leading_dashes(arg), "=") = npos
    /\ trim_leading_dashes(arg) \notin registeredParams_
    /\ i + 1 < Len(args_)
    /\ ~is_option(args_[i + 2])

\* stripping removed exactly one character from the token being classified
OneMarker == Len(arg) - Len(trim_leading_dashes(arg)) = 1

(* C6 as stated: whatever the other mode bits, such a token is recorded as a *)
(* parameter whose value is the following token, which is not added to the   *)
(* positional arguments.                                                     *)
C6_PreferParamAsStated ==
    [][ UnregOptionBeforeValue =>
          /\ trim_leading_dashes(arg) \in DOMAIN params_'
          /\ params_'[trim_leading_dashes(arg)] = args_[i + 2]
          /\ pos_args_' = pos_args_
          /\ i' = i + 2 ]_vars

(* C6, amended: such a token is classified as a parameter taking the         *)
(* following token as its value (a value the name already has is kept), and  *)
(* the following token is not added to the positional arguments, unless the  *)
(* token is expanded as a multi-flag: SINGLE_DASH_IS_MULTIFLAG set and       *)
(* exactly one leading marker character stripped.                            *)
C6_PreferParam ==
    [][ ( /\ UnregOptionBeforeValue
          /\ ~(HasBit(mode, SINGLE_DASH_IS_MULTIFLAG) /\ OneMarker) ) =>
          /\ Bound(params_, params_', trim_leading_dashes(arg), args_[i + 2])
          /\ pos_args_' = pos_args_
          /\ flags_' = flags_
          /\ i' = i + 2 ]_vars

C6_Witness ==
    /\ pc = "done"
    /\ HasBit(mode, PREFER_PARAM_FOR_UNREG_OPTION)
    /\ ~HasBit(mode, PREFER_FLAG_FOR_UNREG_OPTION)
    /\ registeredParams_ = {}
    /\ args_ = <<TokX, Tok5>>
    /\ pos_args_ = <<>>
    /\ NameX \in DOMAIN params_
    /\ params_[NameX] = Tok5

----------------------------------------------------------------------------
(* C7 *)

(* C7: parse() accumulates.  Every step of every call keeps the positional   *)
(* arguments recorded so far as a prefix of pos_args(), keeps every flag     *)
(* occurrence recorded so far in flags(), and keeps every name of params()   *)
(* with its value: what a call records is added to what earlier calls left.  *)
C7_Accumulates ==
    [][ /\ IsPrefix(pos_args_, pos_args_')
        /\ flags_ \sqsubseteq flags_'
        /\ \A n \in DOMAIN params_ :
              n \in DOMAIN params_' /\ params_'[n] = params_[n] ]_vars

\* two calls on <<"5", "--x">>: both positionals and both flags are there
C7_Witness ==
    /\ pc = "idle"
    /\ calls = 2
    /\ args_ = <<Tok5, TokX>>
    /\ pos_args_ = <<Tok5, Tok5>>
    /\ CopiesIn(NameX, flags_) = 2

----------------------------------------------------------------------------
(* C8 *)

\* the names looked up: the names as recorded, and the tokens as typed
LookupNames == BagToSet(flags_) \cup Tokens

(* C8: flag lookup finds every recorded flag: operator[] of a name contained *)
(* in flags() is true, and operator[] of a list of names is true exactly     *)
(* when one of them was recorded as a flag.                                  *)
C8_LookupFindsRecorded ==
    /\ \A n \in BagToSet(flags_) : FlagLookup(n)
    /\ \A n1 \in BagToSet(flags_), n2 \in LookupNames :
          FlagLookupAny(<<n1, n2>>) /\ FlagLookupAny(<<n2, n1>>)
    /\ \A n1, n2 \in LookupNames :
          FlagLookupAny(<<n1, n2>>) =>
              \E n \in {n1, n2} : BagIn(trim_leading_dashes(n), flags_)

----------------------------------------------------------------------------
(* C9 *)

\* the next token does not exist or is an option
AtEndOrBeforeOption ==
    IF i + 1 >= Len(args_) THEN TRUE ELSE is_option(args_[i + 2])

\* the token being classified was expanded, its last character held back
HeldBack ==
    /\ HasBit(mode, SINGLE_DASH_IS_MULTIFLAG)
    /\ Len(arg) - Len(trim_leading_dashes(arg)) = 1
    /\ trim_leading_dashes(arg) \notin registeredParams_

\* the flags of the characters before a held-back character, if any
ExpandedBefore ==
    IF HeldBack
    THEN WithChars(flags_, SubSeq(trim_leading_dashes(arg), 1,
                                  Len(trim_leading_dashes(arg)) - 1))
    ELSE flags_

\* n gains one flag occurrence, and the loop moves on by one token
FlagStep(n) ==
    /\ flags_' = ExpandedBefore (+) SetToBag({n})
    /\ params_' = params_
    /\ pos_args_' = pos_args_
    /\ i' = i + 1

(* C9 as stated: a token that reaches the lookahead with candidate name n is *)
(* a flag when it is the last token or an option follows, registered or not; *)
(* otherwise a parameter with the next token as value, two tokens consumed,  *)
(* when n is registered or PREFER_PARAM_FOR_UNREG_OPTION is set; otherwise a *)
(* flag, the next token being left to the following iteration.               *)
C9_LookaheadAsStated ==
    [][ ReachesLookahead =>
          IF AtEndOrBeforeOption THEN FlagStep(name)
          ELSE IF name \in registeredParams_
                    \/ HasBit(mode, PREFER_PARAM_FOR_UNREG_OPTION)
               THEN /\ name \in DOMAIN params_'
                    /\ params_'[name] = args_[i + 2]
                    /\ i' = i + 2
               ELSE FlagStep(name) ]_vars

(* C9, amended: as stated, but that before a value the assertion on the mode *)
(* bits comes first and fails when both PREFER bits are set, n being         *)
(* recorded neither as a flag nor as a parameter, and that the parameter is  *)
(* inserted first-wins: a value the name already has is kept.                *)
C9_Lookahead ==
    [][ ReachesLookahead =>
          IF AtEndOrBeforeOption THEN FlagStep(name)
          ELSE IF ModeConflict
               THEN /\ pc' = "aborted"
                    /\ flags_' = ExpandedBefore
                    /\ params_' = params_
                    /\ pos_args_' = pos_args_
               ELSE IF name \in registeredParams_
                         \/ HasBit(mode, PREFER_PARAM_FOR_UNREG_OPTION)
                    THEN /\ Bound(params_, params_', name, args_[i + 2])
                         /\ flags_' = ExpandedBefore
                         /\ pos_args_' = pos_args_
                         /\ i' = i + 2
                    ELSE FlagStep(name) ]_vars

\* the three outcomes of the specification's example, here the registered one
C9_Witness ==
    /\ pc = "done"
    /\ mode = PREFER_FLAG_FOR_UNREG_OPTION
    /\ registeredParams_ = {NameX}
    /\ args_ = <<TokX, Tok5>>
    /\ flags_ = EmptyBag
    /\ pos_args_ = <<>>
    /\ NameX \in DOMAIN params_
    /\ params_[NameX] = Tok5

----------------------------------------------------------------------------
(* C10 *)

\* the last character of the stripped token, as a name
LastChar == <<trim_leading_dashes(arg)[Len(trim_leading_dashes(arg))]>>

\* the stripped token without its last character
ButLast == SubSeq(trim_leading_dashes(arg), 1, Len(trim_leading_dashes(arg)) - 1)

\* the step expands the token: every character a flag, or every character
\* but a registered last one, which goes through the lookahead on its own
ExpandedStep ==
    IF LastChar \in registeredParams_
    THEN IF AtEndOrBeforeOption
         THEN /\ flags_' = WithChars(flags_, trim_leading_dashes(arg))
              /\ params_' = params_
              /\ i' = i + 1
         ELSE /\ flags_' = WithChars(flags_, ButLast)
              /\ Bound(params_, params_', LastChar, args_[i + 2])
              /\ i' = i + 2
    ELSE /\ flags_' = WithChars(flags_, trim_leading_dashes(arg))
         /\ params_' = params_
         /\ i' = i + 1

\* the step treats the stripped token as one name
WholeNameStep ==
    /\ flags_' \in {flags_, multiset_emplace(flags_, trim_leading_dashes(arg))}
    /\ \A n \in DOMAIN params_' \ DOMAIN params_ :
          n \in {trim_leading_dashes(arg),
                 prefix(trim_leading_dashes(arg),
                        find(trim_leading_dashes(arg), "="))}

(* C10 as stated: under SINGLE_DASH_IS_MULTIFLAG an option token is expanded *)
(* if and only if exactly one leading marker was stripped and its whole name *)
(* is not registered; expanded, its characters become flags, a registered    *)
(* last character being held back for the lookahead.                         *)
C10_MultiFlagAsStated ==
    [][ ( /\ InLoop
          /\ is_option(arg)
          /\ HasBit(mode, SINGLE_DASH_IS_MULTIFLAG) ) =>
          /\ pos_args_' = pos_args_
          /\ IF OneMarker /\ trim_leading_dashes(arg) \notin registeredParams_
             THEN ExpandedStep
             ELSE WholeNameStep ]_vars

\* name=value splitting takes the token before the multi-flag test
SplitAtEquals ==
    /\ ~HasBit(mode, NO_SPLIT_ON_EQUALSIGN)
    /\ find(trim_leading_dashes(arg), "=") # npos

\* ExpandedStep, the held-back character failing the assertion on the mode
\* bits when both PREFER bits are set and a value follows
ExpandedOrAssertStep ==
    IF LastChar \in registeredParams_ /\ ~AtEndOrBeforeOption /\ ModeConflict
    THEN /\ pc' = "aborted"
         /\ flags_' = WithChars(flags_, ButLast)
         /\ params_' = params_
    ELSE ExpandedStep

(* C10, amended: under SINGLE_DASH_IS_MULTIFLAG an option token is expanded  *)
(* if and only if it is not split at '=', exactly one leading marker was     *)
(* stripped and its whole name is not registered; the rest as stated, but    *)
(* that a held-back character before a value fails the assertion when both  *)
(* PREFER bits are set, and that a value the parameter already has is kept.  *)
C10_MultiFlag ==
    [][ ( /\ InLoop
          /\ is_option(arg)
          /\ HasBit(mode, SINGLE_DASH_IS_MULTIFLAG) ) =>
          /\ pos_args_' = pos_args_
          /\ IF /\ ~SplitAtEquals
                /\ OneMarker
                /\ trim_leading_dashes(arg) \notin registeredParams_
             THEN ExpandedOrAssertStep
             ELSE WholeNameStep ]_vars

\* "-bx" before "5" with x registered: flag b, parameter x = "5"
C10_Witness ==
    /\ pc = "done"
    /\ HasBit(mode, SINGLE_DASH_IS_MULTIFLAG)
    /\ ValidMode
    /\ registeredParams_ = {NameX}
    /\ args_ = <<TokBX, Tok5>>
    /\ flags_ = SetToBag({<<"b">>})
    /\ NameX \in DOMAIN params_
    /\ params_[NameX] = Tok5

====
